---- MODULE Spec2Model ----
(***************************************************************************)
(* DynamicDispatcher (pennylane_lightning, lightning_qubit/gates):         *)
(* the kernel dispatch registry.  Three (operation, kernel) -> callable    *)
(* maps, a kernel-name map, two name tables built by the constructor, and  *)
(* the apply* entry points that resolve a callable and invoke it on the    *)
(* caller's state-vector buffer.                                           *)
(***************************************************************************)
EXTENDS Integers, Sequences, FiniteSets, TLC

VARIABLES
    str_to_gates_,      \* std::unordered_map<std::string, GateOperation>
    str_to_gntrs_,      \* std::unordered_map<std::string, GeneratorOperation>
    gate_kernels_,      \* (GateOperation, KernelType) -> GateFunc
    generator_kernels_, \* (GeneratorOperation, KernelType) -> GeneratorFunc
    matrix_kernels_,    \* (MatrixOperation, KernelType) -> MatrixFunc
    kernel_names_,      \* KernelType -> std::string
    call,               \* the member function called last: arguments and outcome
    i,                  \* loop index of applyOperations while it runs
    invoked,            \* callables invoked by `call`, in order, with their arguments
    buffer,             \* writes made through the data pointer during `call`
    peer,               \* applyOperation as a second thread runs it, step by step
    missed              \* the pair whose dispatch the caller last saw refused

vars == <<str_to_gates_, str_to_gntrs_, gate_kernels_, generator_kernels_,
          matrix_kernels_, kernel_names_, call, i, invoked, buffer, peer, missed>>

\* what belongs to the callers of the instance, not to the instance
callers == <<peer, missed>>

\* the variables, behind the fields of `call` that tell two calls apart
\* whatever they returned
progress == <<call.api, call.outcome, i, vars>>

registry == <<gate_kernels_, generator_kernels_, matrix_kernels_, kernel_names_>>

tables == <<str_to_gates_, str_to_gntrs_>>

-----------------------------------------------------------------------------
(* Bounds of the model *)

\* most entries the four maps of the registry hold together
MaxRegs == 2

\* longest wire list passed to applyMatrix
MaxWires == 3

\* longest ops list passed to applyOperations
MaxBatch == 2

-----------------------------------------------------------------------------
(* The operation catalogue and the kernel identifiers (Constant.hpp,       *)
(* GateOperation.hpp, KernelType.hpp): enumerators and their names.        *)

KernelType == {"KernelType::PI", "KernelType::LM"}

GateOperation == {"GateOperation::PauliX", "GateOperation::RX"}

GeneratorOperation == {"GeneratorOperation::RX", "GeneratorOperation::CRX"}

MatrixOperation == {"MatrixOperation::SingleQubitOp",
                    "MatrixOperation::TwoQubitOp",
                    "MatrixOperation::MultiQubitOp"}

gate_names == << <<"GateOperation::PauliX", "PauliX">>,
                 <<"GateOperation::RX", "RX">> >>

generator_names == << <<"GeneratorOperation::RX", "GeneratorRX">>,
                      <<"GeneratorOperation::CRX", "GeneratorCRX">> >>

matrix_names == << <<"MatrixOperation::SingleQubitOp", "SingleQubitOp">>,
                   <<"MatrixOperation::TwoQubitOp", "TwoQubitOp">>,
                   <<"MatrixOperation::MultiQubitOp", "MultiQubitOp">> >>

\* Util::lookup: the value paired with key in a table of pairs
RECURSIVE lookup(_, _)
lookup(table, key) ==
    IF Head(table)[1] = key THEN Head(table)[2] ELSE lookup(Tail(table), key)

\* Util::exp2: 1 << n
exp2(n) == 2 ^ n

-----------------------------------------------------------------------------
(* Callables handed to the registry by kernel modules, and what the caller *)
(* passes to the entry points.                                             *)

GateFunc == {"gateFuncA", "gateFuncB"}

GeneratorFunc == {"gntrFuncA", "gntrFuncB"}

MatrixFunc == {"matFuncA", "matFuncB"}

\* the scalar a generator callable returns
GeneratorScale(func) == IF func = "gntrFuncA" THEN 1 ELSE 2

\* strings a caller may pass as an operation name
OpNames == {"PauliX", "RX", "CRX", "GeneratorRX", "NotAGate"}

\* the state-vector pointer
DataPtr == "data"

NoValue == "void"

-----------------------------------------------------------------------------
(* std::unordered_map primitives used by the class *)

EmptyMap == <<>>

contains(map, key) == key \in DOMAIN map

\* insert_or_assign: the entry is overwritten when the key is occupied
EmplaceOverwrites(map, key, value) ==
    [k \in DOMAIN map \cup {key} |-> IF k = key THEN value ELSE map[k]]

\* an insertion into a cleared map: the new entry is the only one left
EmplaceIntoCleared(map, key, value) == key :> value

\* unordered_map::emplace: inserts only when the key is absent
Emplace(map, key, value) ==
    IF contains(map, key) THEN map ELSE map @@ (key :> value)

\* number of entries over the four maps of the registry
NumEntries ==
    Cardinality(DOMAIN gate_kernels_) + Cardinality(DOMAIN generator_kernels_)
        + Cardinality(DOMAIN matrix_kernels_) + Cardinality(DOMAIN kernel_names_)

-----------------------------------------------------------------------------
(* Internal::generatorNamesWithoutPrefix and the constructor *)

prefix == "Generator"

\* gntr_name.substr(prefix.size() - 1): the last character of the prefix stays
StripPrefixOffByOne(gntr_name) == SubSeq(gntr_name, Len(prefix), Len(gntr_name))

\* gntr_name.substr(prefix.size())
StripPrefix(gntr_name) == SubSeq(gntr_name, Len(prefix) + 1, Len(gntr_name))

generatorNamesWithoutPrefix ==
    [k \in DOMAIN generator_names |->
        <<generator_names[k][1], StripPrefix(generator_names[k][2])>>]

\* the constructor's loops: emplace(name, op) for each pair, in order
RECURSIVE BuildTable(_, _)
BuildTable(pairs, map) ==
    IF pairs = <<>> THEN map
    ELSE BuildTable(Tail(pairs), Emplace(map, Head(pairs)[2], Head(pairs)[1]))

-----------------------------------------------------------------------------
(* Outcomes of a call *)

Returned(value, invocations) ==
    [outcome |-> "returned", type |-> "none", what |-> "", value |-> value,
     invocations |-> invocations]

Threw(type, what) ==
    [outcome |-> "threw", type |-> type, what |-> what, value |-> NoValue,
     invocations |-> <<>>]

\* PL_ASSERT on a false expression: the fatal assertion failure; the call
\* never returns to its caller
Aborted ==
    [outcome |-> "aborted", type |-> "none", what |-> "Assertion failed",
     value |-> NoValue, invocations |-> <<>>]

PL_ASSERT_Fails(expression) == ~expression

\* unordered_map::at on a missing key
OutOfRange == Threw("std::out_of_range", "unordered_map::at")

GateKernelNotFound ==
    "Cannot find a registered kernel for a given gate and kernel pair"

GeneratorKernelNotFound ==
    "Cannot find a registered kernel for a given generator and kernel pair."

MatrixKernelNotFound(mat_op) ==
    lookup(matrix_names, mat_op) \o " is not registered for the given kernel"

MatrixSizeMismatch ==
    "The size of matrix does not match with the given number of wires"

\* the call recorded in `call`
Record(api, args, result) ==
    [api |-> api, args |-> args, outcome |-> result.outcome,
     type |-> result.type, what |-> result.what, value |-> result.value]

\* what running the callables of `invocations` does to the buffer
Writes(invocations) == [k \in DOMAIN invocations |-> invocations[k].func]

Finish(api, args, result) ==
    /\ call' = Record(api, args, result)
    /\ invoked' = result.invocations
    /\ buffer' = Writes(result.invocations)
    /\ i' = 0

\* no member function is running or waiting for its caller to take the result
NoCall == [api |-> "none", args |-> <<>>, outcome |-> "none", type |-> "none",
           what |-> "", value |-> NoValue]

Idle == call.api = "none"

\* the caller has seen no dispatch refused
NoPair == <<"none", "none">>

\* control is back in the caller, which makes its next call with a buffer of
\* its own
Return ==
    /\ call.outcome \in {"returned", "threw"}
    /\ call' = NoCall
    /\ invoked' = <<>>
    /\ buffer' = <<>>
    /\ i' = 0
    /\ UNCHANGED <<callers, tables, registry>>

-----------------------------------------------------------------------------
(* Registration *)

\* a registry that seals itself at the first dispatch it refuses: a
\* registration made after that returns without inserting
RegisterGateOperationSealed ==
    /\ Idle
    /\ \E gate_op \in GateOperation, kernel \in KernelType, func \in GateFunc :
        /\ NumEntries < MaxRegs \/ contains(gate_kernels_, <<gate_op, kernel>>)
        /\ gate_kernels_' =
              IF missed = NoPair
              THEN Emplace(gate_kernels_, <<gate_op, kernel>>, func)
              ELSE gate_kernels_
        /\ Finish("registerGateOperation",
                  [op |-> gate_op, kernel |-> kernel, func |-> func],
                  Returned(NoValue, <<>>))
    /\ UNCHANGED <<callers, tables, generator_kernels_, matrix_kernels_,
                   kernel_names_>>

RegisterGateOperation ==
    /\ Idle
    /\ \E gate_op \in GateOperation, kernel \in KernelType, func \in GateFunc :
        /\ NumEntries < MaxRegs \/ contains(gate_kernels_, <<gate_op, kernel>>)
        /\ gate_kernels_' = Emplace(gate_kernels_, <<gate_op, kernel>>, func)
        /\ Finish("registerGateOperation",
                  [op |-> gate_op, kernel |-> kernel, func |-> func],
                  Returned(NoValue, <<>>))
    /\ UNCHANGED <<callers, tables, generator_kernels_, matrix_kernels_,
                   kernel_names_>>

RegisterGeneratorOperation ==
    /\ Idle
    /\ \E gntr_op \in GeneratorOperation, kernel \in KernelType,
          func \in GeneratorFunc :
        /\ NumEntries < MaxRegs
              \/ contains(generator_kernels_, <<gntr_op, kernel>>)
        /\ generator_kernels_' =
              Emplace(generator_kernels_, <<gntr_op, kernel>>, func)
        /\ Finish("registerGeneratorOperation",
                  [op |-> gntr_op, kernel |-> kernel, func |-> func],
                  Returned(NoValue, <<>>))
    /\ UNCHANGED <<callers, tables, gate_kernels_, matrix_kernels_,
                   kernel_names_>>

\* a registration keyed by the operation alone: the callable is stored under
\* every kernel that has none for the operation
RegisterMatrixOperationAllKernels ==
    /\ Idle
    /\ \E mat_op \in MatrixOperation, kernel \in KernelType, func \in MatrixFunc :
        /\ NumEntries < MaxRegs \/ contains(matrix_kernels_, <<mat_op, kernel>>)
        /\ matrix_kernels_' =
              [key \in DOMAIN matrix_kernels_
                          \cup {<<mat_op, any>> : any \in KernelType} |->
                  IF contains(matrix_kernels_, key) THEN matrix_kernels_[key]
                  ELSE func]
        /\ Finish("registerMatrixOperation",
                  [op |-> mat_op, kernel |-> kernel, func |-> func],
                  Returned(NoValue, <<>>))
    /\ UNCHANGED <<callers, tables, gate_kernels_, generator_kernels_,
                   kernel_names_>>

RegisterMatrixOperation ==
    /\ Idle
    /\ \E mat_op \in MatrixOperation, kernel \in KernelType, func \in MatrixFunc :
        /\ NumEntries < MaxRegs \/ contains(matrix_kernels_, <<mat_op, kernel>>)
        /\ matrix_kernels_' = Emplace(matrix_kernels_, <<mat_op, kernel>>, func)
        /\ Finish("registerMatrixOperation",
                  [op |-> mat_op, kernel |-> kernel, func |-> func],
                  Returned(NoValue, <<>>))
    /\ UNCHANGED <<callers, tables, gate_kernels_, generator_kernels_,
                   kernel_names_>>

KernelNames == {"PI", "LM"}

\* kernel_names_[kernel] = name: the last name given to a kernel is kept
RegisterKernelNameAssigns ==
    /\ Idle
    /\ \E kernel \in KernelType, name \in KernelNames :
        /\ NumEntries < MaxRegs \/ contains(kernel_names_, kernel)
        /\ kernel_names_' = EmplaceOverwrites(kernel_names_, kernel, name)
        /\ Finish("registerKernelName", [kernel |-> kernel, name |-> name],
                  Returned(NoValue, <<>>))
    /\ UNCHANGED <<callers, tables, gate_kernels_, generator_kernels_,
                   matrix_kernels_>>

RegisterKernelName ==
    /\ Idle
    /\ \E kernel \in KernelType, name \in KernelNames :
        /\ NumEntries < MaxRegs \/ contains(kernel_names_, kernel)
        /\ kernel_names_' = Emplace(kernel_names_, kernel, name)
        /\ Finish("registerKernelName", [kernel |-> kernel, name |-> name],
                  Returned(NoValue, <<>>))
    /\ UNCHANGED <<callers, tables, gate_kernels_, generator_kernels_,
                   matrix_kernels_>>

-----------------------------------------------------------------------------
(* Name translation *)

\* str_to_gates_.at(gate_name) throws std::out_of_range on a missing name
strToGateOpThrows(gate_name) == ~contains(str_to_gates_, gate_name)

strToGateOp(gate_name) == str_to_gates_[gate_name]

hasGateOp(gate_name) == contains(str_to_gates_, gate_name)

strToGeneratorOpThrows(gntr_name) == ~contains(str_to_gntrs_, gntr_name)

strToGeneratorOp(gntr_name) == str_to_gntrs_[gntr_name]

StrToGateOp ==
    /\ Idle
    /\ \E gate_name \in OpNames :
          Finish("strToGateOp", [name |-> gate_name],
                 IF strToGateOpThrows(gate_name) THEN OutOfRange
                 ELSE Returned(strToGateOp(gate_name), <<>>))
    /\ UNCHANGED <<callers, tables, registry>>

HasGateOp ==
    /\ Idle
    /\ \E gate_name \in OpNames :
          Finish("hasGateOp", [name |-> gate_name],
                 Returned(hasGateOp(gate_name), <<>>))
    /\ UNCHANGED <<callers, tables, registry>>

StrToGeneratorOp ==
    /\ Idle
    /\ \E gntr_name \in OpNames :
          Finish("strToGeneratorOp", [name |-> gntr_name],
                 IF strToGeneratorOpThrows(gntr_name) THEN OutOfRange
                 ELSE Returned(strToGeneratorOp(gntr_name), <<>>))
    /\ UNCHANGED <<callers, tables, registry>>

-----------------------------------------------------------------------------
(* Arguments of the single-operation entry points *)

\* the second list names wire 2, which a register of 2 qubits does not have
WireLists == {<<0>>, <<2, 0>>}

GateArgs ==
    [data : {DataPtr}, num_qubits : {2}, wires : WireLists, inverse : BOOLEAN,
     params : {<<>>, <<1>>}]

GeneratorArgs ==
    [data : {DataPtr}, num_qubits : {2}, wires : WireLists, adj : BOOLEAN]

\* a call that hands the callable the opposite of the caller's inverse flag
GateInvocationFlipsInverse(func, a) ==
    [func |-> func, data |-> a.data, num_qubits |-> a.num_qubits,
     wires |-> a.wires, inverse |-> ~a.inverse, params |-> a.params]

\* (iter->second)(data, num_qubits, wires, inverse, params)
GateInvocation(func, a) ==
    [func |-> func, data |-> a.data, num_qubits |-> a.num_qubits,
     wires |-> a.wires, inverse |-> a.inverse, params |-> a.params]

\* (iter->second)(data, num_qubits, wires, adj)
GeneratorInvocation(func, a) ==
    [func |-> func, data |-> a.data, num_qubits |-> a.num_qubits,
     wires |-> a.wires, adj |-> a.adj]

-----------------------------------------------------------------------------
(* applyOperation *)

\* a lookup that falls back to the callable of any kernel registered for the gate
applyOperationAnyKernel(kernel, gate_op, a) ==
    LET keys == {key \in DOMAIN gate_kernels_ : key[1] = gate_op}
    IN  IF keys = {}
        THEN Threw("std::invalid_argument", GateKernelNotFound)
        ELSE LET key == IF <<gate_op, kernel>> \in keys THEN <<gate_op, kernel>>
                        ELSE CHOOSE k \in keys : TRUE
             IN  Returned(NoValue, <<GateInvocation(gate_kernels_[key], a)>>)

\* applyOperation(kernel, data, num_qubits, gate_op, wires, inverse, params)
applyOperation(kernel, gate_op, a) ==
    IF ~contains(gate_kernels_, <<gate_op, kernel>>)
    THEN Threw("std::invalid_argument", GateKernelNotFound)
    ELSE Returned(NoValue,
                  <<GateInvocation(gate_kernels_[<<gate_op, kernel>>], a)>>)

\* operator[] instead of at(): a missing name yields the default enumerator
applyOperationStrDefaultOp(kernel, op_name, a) ==
    LET gate_op == IF strToGateOpThrows(op_name) THEN gate_names[1][1]
                   ELSE strToGateOp(op_name)
    IN  IF ~contains(gate_kernels_, <<gate_op, kernel>>)
        THEN Threw("std::invalid_argument", GateKernelNotFound)
        ELSE Returned(NoValue,
                      <<GateInvocation(gate_kernels_[<<gate_op, kernel>>], a)>>)

\* applyOperation(kernel, data, num_qubits, op_name, wires, inverse, params)
applyOperationStr(kernel, op_name, a) ==
    IF strToGateOpThrows(op_name) THEN OutOfRange
    ELSE IF ~contains(gate_kernels_, <<strToGateOp(op_name), kernel>>)
    THEN Threw("std::invalid_argument", GateKernelNotFound)
    ELSE Returned(NoValue,
            <<GateInvocation(gate_kernels_[<<strToGateOp(op_name), kernel>>], a)>>)

\* a lookup by gate_kernels_[key], which inserts an empty callable for a key
\* it does not find; calling the empty callable throws
ApplyOperationBySubscript ==
    /\ Idle
    /\ \E kernel \in KernelType, gate_op \in GateOperation, a \in GateArgs :
          /\ gate_kernels_' =
                Emplace(gate_kernels_, <<gate_op, kernel>>, "emptyFunc")
          /\ Finish("applyOperation",
                    [kernel |-> kernel, op |-> gate_op, a |-> a],
                    IF contains(gate_kernels_, <<gate_op, kernel>>)
                    THEN applyOperation(kernel, gate_op, a)
                    ELSE Threw("std::bad_function_call", "bad_function_call"))
    /\ UNCHANGED <<callers, tables, generator_kernels_, matrix_kernels_,
                   kernel_names_>>

ApplyOperation ==
    /\ Idle
    /\ \E kernel \in KernelType, gate_op \in GateOperation, a \in GateArgs :
        Finish("applyOperation", [kernel |-> kernel, op |-> gate_op, a |-> a],
               applyOperation(kernel, gate_op, a))
    /\ UNCHANGED <<callers, tables, registry>>

ApplyOperationStr ==
    /\ Idle
    /\ \E kernel \in KernelType, op_name \in OpNames, a \in GateArgs :
        Finish("applyOperation(str)",
               [kernel |-> kernel, op |-> op_name, a |-> a],
               applyOperationStr(kernel, op_name, a))
    /\ UNCHANGED <<callers, tables, registry>>

-----------------------------------------------------------------------------
(* applyGenerator *)

\* applyGenerator(kernel, data, num_qubits, gntr_op, wires, adj)
applyGenerator(kernel, gntr_op, a) ==
    IF ~contains(generator_kernels_, <<gntr_op, kernel>>)
    THEN Threw("std::invalid_argument", GeneratorKernelNotFound)
    ELSE LET func == generator_kernels_[<<gntr_op, kernel>>]
         IN  Returned(GeneratorScale(func), <<GeneratorInvocation(func, a)>>)

\* applyGenerator(kernel, data, num_qubits, op_name, wires, adj)
applyGeneratorStr(kernel, op_name, a) ==
    IF strToGeneratorOpThrows(op_name) THEN OutOfRange
    ELSE IF ~contains(generator_kernels_, <<strToGeneratorOp(op_name), kernel>>)
    THEN Threw("std::invalid_argument", GeneratorKernelNotFound)
    ELSE LET func == generator_kernels_[<<strToGeneratorOp(op_name), kernel>>]
         IN  Returned(GeneratorScale(func), <<GeneratorInvocation(func, a)>>)

ApplyGenerator ==
    /\ Idle
    /\ \E kernel \in KernelType, gntr_op \in GeneratorOperation,
          a \in GeneratorArgs :
        Finish("applyGenerator", [kernel |-> kernel, op |-> gntr_op, a |-> a],
               applyGenerator(kernel, gntr_op, a))
    /\ UNCHANGED <<callers, tables, registry>>

ApplyGeneratorStr ==
    /\ Idle
    /\ \E kernel \in KernelType, op_name \in OpNames, a \in GeneratorArgs :
        Finish("applyGenerator(str)",
               [kernel |-> kernel, op |-> op_name, a |-> a],
               applyGeneratorStr(kernel, op_name, a))
    /\ UNCHANGED <<callers, tables, registry>>

-----------------------------------------------------------------------------
(* applyMatrix *)

\* a wire list of n wires
Wires(n) == [k \in 1..n |-> n - k]

MatrixWires == {Wires(n) : n \in 0..MaxWires}

\* element counts of the matrices a caller passes: the dense unitaries over
\* 0..MaxWires wires, and a count that is no power of four
MatrixSizes == {exp2(2 * n) : n \in 0..MaxWires} \cup {3}

\* what the matrix pointer points to
MatrixElems == {"matrixU", "matrixV"}

\* std::vector<std::complex<PrecisionT>>: its size() and its data()
MatrixVectors == [size : MatrixSizes, data : MatrixElems]

MatrixPtrArgs ==
    [data : {DataPtr}, num_qubits : {1, MaxWires}, matrix : MatrixElems,
     wires : MatrixWires, inverse : BOOLEAN]

MatrixVecArgs ==
    [data : {DataPtr}, num_qubits : {1, MaxWires}, matrix : MatrixVectors,
     wires : MatrixWires, inverse : BOOLEAN]

\* (iter->second)(data, num_qubits, matrix, wires, inverse)
MatrixInvocation(func, a) ==
    [func |-> func, data |-> a.data, num_qubits |-> a.num_qubits,
     matrix |-> a.matrix, wires |-> a.wires, inverse |-> a.inverse]

\* a switch without the two-wire case
MatrixOpForOneOrMany(n_wires) ==
    IF n_wires = 1 THEN "MatrixOperation::SingleQubitOp"
    ELSE "MatrixOperation::MultiQubitOp"

\* the switch on wires.size()
MatrixOpFor(n_wires) ==
    CASE n_wires = 1 -> "MatrixOperation::SingleQubitOp"
      [] n_wires = 2 -> "MatrixOperation::TwoQubitOp"
      [] OTHER -> "MatrixOperation::MultiQubitOp"

\* the lookup made before the assertion
applyMatrixLookupFirst(kernel, a) ==
    LET mat_op == MatrixOpFor(Len(a.wires))
    IN  IF ~contains(matrix_kernels_, <<mat_op, kernel>>)
        THEN Threw("std::invalid_argument", MatrixKernelNotFound(mat_op))
        ELSE IF PL_ASSERT_Fails(a.num_qubits >= Len(a.wires)) THEN Aborted
        ELSE Returned(NoValue,
                <<MatrixInvocation(matrix_kernels_[<<mat_op, kernel>>], a)>>)

\* applyMatrix(kernel, data, num_qubits, const complex *matrix, wires, inverse)
applyMatrix(kernel, a) ==
    IF PL_ASSERT_Fails(a.num_qubits >= Len(a.wires)) THEN Aborted
    ELSE LET mat_op == MatrixOpFor(Len(a.wires))
         IN  IF ~contains(matrix_kernels_, <<mat_op, kernel>>)
             THEN Threw("std::invalid_argument", MatrixKernelNotFound(mat_op))
             ELSE Returned(NoValue,
                    <<MatrixInvocation(matrix_kernels_[<<mat_op, kernel>>], a)>>)

\* exp2 of the wire count, not of twice the wire count
ExpectedMatrixSizeLinear(wires) == exp2(Len(wires))

\* exp2(2 * wires.size())
ExpectedMatrixSize(wires) == exp2(2 * Len(wires))

\* applyMatrix(kernel, data, num_qubits, const std::vector<complex> &matrix,
\*             wires, inverse)
applyMatrixVec(kernel, a) ==
    IF a.matrix.size # ExpectedMatrixSize(a.wires)
    THEN Threw("std::invalid_argument", MatrixSizeMismatch)
    ELSE applyMatrix(kernel, [a EXCEPT !.matrix = a.matrix.data])

ApplyMatrix ==
    /\ Idle
    /\ \E kernel \in KernelType, a \in MatrixPtrArgs :
        Finish("applyMatrix", [kernel |-> kernel, a |-> a],
               applyMatrix(kernel, a))
    /\ UNCHANGED <<callers, tables, registry>>

ApplyMatrixVec ==
    /\ Idle
    /\ \E kernel \in KernelType, a \in MatrixVecArgs :
        Finish("applyMatrix(vector)", [kernel |-> kernel, a |-> a],
               applyMatrixVec(kernel, a))
    /\ UNCHANGED <<callers, tables, registry>>

-----------------------------------------------------------------------------
(* applyOperations *)

BatchOpNames == {"PauliX", "RX", "NotAGate"}

\* the lists a caller passes beside ops: element k is told apart by its value
BatchWires(n) == [k \in 1..n |-> Wires(k)]

BatchInverse(n) == [k \in 1..n |-> k % 2 = 1]

BatchParams(n) == [k \in 1..n |-> <<k>>]

OpLists == UNION {[1..n -> BatchOpNames] : n \in 0..MaxBatch}

BatchArgs ==
    [data : {DataPtr}, num_qubits : {2}, ops : OpLists,
     wires : {BatchWires(n) : n \in 0..MaxBatch},
     inverse : {BatchInverse(n) : n \in 0..MaxBatch},
     params : {BatchParams(n) : n \in 0..MaxBatch}]

ArgumentCountMismatch ==
    "Invalid arguments: number of operations, wires, and parameters must all be equal"

\* throw std::invalid_argument("Invalid arguments: ...")
ArgumentCountError == Threw("std::invalid_argument", ArgumentCountMismatch)

\* a check that fails only when both lengths differ
LengthsDifferBoth(ops, wires, params) ==
    Len(ops) # Len(wires) /\ Len(ops) # Len(params)

\* numOperations != wires.size() || numOperations != params.size()
LengthsDiffer(ops, wires, params) ==
    Len(ops) # Len(wires) \/ Len(ops) # Len(params)

\* numOperations != wires.size()
LengthsDifferNoParams(ops, wires) == Len(ops) # Len(wires)

\* what reading inverse[i] yields: the element, or, past the end of the
\* vector, whatever the unchecked read produces
InverseReads(inverse, index) ==
    IF index < Len(inverse)
    THEN {[fault |-> FALSE, value |-> inverse[index + 1]]}
    ELSE [fault : BOOLEAN, value : BOOLEAN]

\* the read of inverse[i] past the end faulted
Faulted ==
    [outcome |-> "fault", type |-> "none", what |-> "", value |-> NoValue,
     invocations |-> <<>>]

\* an increment that passes over an element
NextIndexSkips(index) == index + 2

\* i++
NextIndex(index) == index + 1

\* a loop body that catches what applyOperation throws
Swallowed(result) == FALSE

\* an exception thrown by applyOperation leaves the loop and the call
Propagates(result) == result.outcome = "threw"

\* applyOperation(kernel, data, num_qubits, ops[i], wires[i], inverse[i], params[i])
\* and, in the overload without params, applyOperation(..., inverse[i], {})
Element(b, index, inverse) ==
    applyOperationStr(b.kernel, b.a.ops[index + 1],
        [data |-> b.a.data, num_qubits |-> b.a.num_qubits,
         wires |-> b.a.wires[index + 1], inverse |-> inverse,
         params |-> IF b.with_params THEN b.a.params[index + 1] ELSE <<>>])

Enter(with_params, kernel, a, mismatch) ==
    IF mismatch
    THEN Finish("applyOperations",
                [kernel |-> kernel, a |-> a, with_params |-> with_params],
                ArgumentCountError)
    ELSE /\ call' = [api |-> "applyOperations",
                     args |-> [kernel |-> kernel, a |-> a,
                               with_params |-> with_params],
                     outcome |-> "running", type |-> "none", what |-> "",
                     value |-> NoValue]
         /\ i' = 0
         /\ invoked' = <<>>
         /\ buffer' = <<>>

ApplyOperations ==
    /\ Idle
    /\ \E kernel \in KernelType, a \in BatchArgs :
        Enter(TRUE, kernel, a, LengthsDiffer(a.ops, a.wires, a.params))
    /\ UNCHANGED <<callers, tables, registry>>

ApplyOperationsNoParams ==
    /\ Idle
    /\ \E kernel \in KernelType, a \in BatchArgs :
        /\ a.params = <<>>
        /\ Enter(FALSE, kernel, a, LengthsDifferNoParams(a.ops, a.wires))
    /\ UNCHANGED <<callers, tables, registry>>

Running == call.api = "applyOperations" /\ call.outcome = "running"

\* one pass of the for loop: i < numOperations, the body, i++
ApplyOperationsStep ==
    /\ Running
    /\ i < Len(call.args.a.ops)
    /\ \E read \in InverseReads(call.args.a.inverse, i) :
        IF read.fault
        THEN /\ call' = [call EXCEPT !.outcome = Faulted.outcome]
             /\ UNCHANGED <<i, invoked, buffer>>
        ELSE LET result == Element(call.args, i, read.value)
             IN  IF Propagates(result)
                 THEN /\ call' = [call EXCEPT !.outcome = result.outcome,
                                              !.type = result.type,
                                              !.what = result.what]
                      /\ UNCHANGED <<i, invoked, buffer>>
                 ELSE /\ invoked' = invoked \o result.invocations
                      /\ buffer' = buffer \o Writes(result.invocations)
                      /\ i' = NextIndex(i)
                      /\ UNCHANGED call
    /\ UNCHANGED <<callers, tables, registry>>

\* the loop ends: i < numOperations is false
ApplyOperationsExit ==
    /\ Running
    /\ ~(i < Len(call.args.a.ops))
    /\ call' = [call EXCEPT !.outcome = "returned"]
    /\ UNCHANGED <<i, invoked, buffer, callers, tables, registry>>

-----------------------------------------------------------------------------

(* Introspection of the three callable maps *)

\* a scan that collects the operation of every entry, whatever its kernel
registeredGatesForKernelAnyKernel(kernel) ==
    {key[1] : key \in DOMAIN gate_kernels_}

\* for (const auto &[key, val] : gate_kernels_)
\*     if (key.second == kernel) gates.emplace(key.first);
registeredGatesForKernel(kernel) ==
    {key[1] : key \in {pair \in DOMAIN gate_kernels_ : pair[2] = kernel}}

registeredGeneratorsForKernel(kernel) ==
    {key[1] : key \in {pair \in DOMAIN generator_kernels_ : pair[2] = kernel}}

registeredMatricesForKernel(kernel) ==
    {key[1] : key \in {pair \in DOMAIN matrix_kernels_ : pair[2] = kernel}}

\* the three overloads of isRegistered, chosen by the type of the operation
isRegistered(op, kernel) ==
    CASE op \in GateOperation -> contains(gate_kernels_, <<op, kernel>>)
      [] op \in GeneratorOperation -> contains(generator_kernels_, <<op, kernel>>)
      [] op \in MatrixOperation -> contains(matrix_kernels_, <<op, kernel>>)

RegisteredGatesForKernel ==
    /\ Idle
    /\ \E kernel \in KernelType :
          Finish("registeredGatesForKernel", [kernel |-> kernel],
                 Returned(registeredGatesForKernel(kernel), <<>>))
    /\ UNCHANGED <<callers, tables, registry>>

RegisteredGeneratorsForKernel ==
    /\ Idle
    /\ \E kernel \in KernelType :
          Finish("registeredGeneratorsForKernel", [kernel |-> kernel],
                 Returned(registeredGeneratorsForKernel(kernel), <<>>))
    /\ UNCHANGED <<callers, tables, registry>>

RegisteredMatricesForKernel ==
    /\ Idle
    /\ \E kernel \in KernelType :
          Finish("registeredMatricesForKernel", [kernel |-> kernel],
                 Returned(registeredMatricesForKernel(kernel), <<>>))
    /\ UNCHANGED <<callers, tables, registry>>

IsRegistered ==
    /\ Idle
    /\ \E op \in GateOperation \cup GeneratorOperation \cup MatrixOperation,
          kernel \in KernelType :
          Finish("isRegistered", [op |-> op, kernel |-> kernel],
                 Returned(isRegistered(op, kernel), <<>>))
    /\ UNCHANGED <<callers, tables, registry>>

-----------------------------------------------------------------------------

(* The kernel-name map *)

\* the sequences that hold each element of a set once: the orders in which a
\* loop over an unordered_map may meet its keys
Orderings(set) ==
    {seq \in [1..Cardinality(set) -> set] :
        \A a, b \in DOMAIN seq : seq[a] = seq[b] => a = b}

\* for (const auto &[kernel, name] : kernel_names_) kernels.emplace_back(kernel);
\* the vectors the call may return
registeredKernels == Orderings(DOMAIN kernel_names_)

\* a kernel counts as registered as soon as some operation names it
isRegisteredKernelByOperations(kernel) ==
    \E key \in DOMAIN gate_kernels_ \cup DOMAIN generator_kernels_
                  \cup DOMAIN matrix_kernels_ : key[2] = kernel

isRegisteredKernel(kernel) == contains(kernel_names_, kernel)

\* kernel_names_.at(kernel)
getKernelName(kernel) ==
    IF ~contains(kernel_names_, kernel) THEN OutOfRange
    ELSE Returned(kernel_names_[kernel], <<>>)

RegisteredKernels ==
    /\ Idle
    /\ \E kernels \in registeredKernels :
          Finish("registeredKernels", <<>>, Returned(kernels, <<>>))
    /\ UNCHANGED <<callers, tables, registry>>

IsRegisteredKernel ==
    /\ Idle
    /\ \E kernel \in KernelType :
          Finish("isRegisteredKernel", [kernel |-> kernel],
                 Returned(isRegisteredKernel(kernel), <<>>))
    /\ UNCHANGED <<callers, tables, registry>>

GetKernelName ==
    /\ Idle
    /\ \E kernel \in KernelType :
          Finish("getKernelName", [kernel |-> kernel], getKernelName(kernel))
    /\ UNCHANGED <<callers, tables, registry>>

-----------------------------------------------------------------------------

(* applyOperation called by a second thread while the first is in a call of *)
(* its own.  The two statements of the function are two steps, so that the  *)
(* steps of the first thread fall before, between and after them.           *)

\* what the second thread passes, with a buffer of its own
PeerArgs ==
    [data |-> "peerData", num_qubits |-> 2, wires |-> <<0>>, inverse |-> FALSE,
     params |-> <<>>]

\* gate_kernels_.find(key): the end iterator, or the entry of the key
Find(map, key) == [end |-> ~contains(map, key), key |-> key]

Pending ==
    [outcome |-> "running", type |-> "none", what |-> "", value |-> NoValue,
     invocations |-> <<>>]

NoPeer ==
    [pc |-> "idle", kernel |-> "none", op |-> "none",
     iter |-> [end |-> TRUE, key |-> <<"none", "none">>], result |-> Pending]

\* const auto iter = gate_kernels_.find(std::make_pair(gate_op, kernel));
PeerFind ==
    /\ peer.pc = "idle"
    /\ \E kernel \in KernelType, gate_op \in GateOperation :
          peer' = [pc |-> "found", kernel |-> kernel, op |-> gate_op,
                   iter |-> Find(gate_kernels_, <<gate_op, kernel>>),
                   result |-> Pending]
    /\ UNCHANGED <<call, i, invoked, buffer, missed, tables, registry>>

\* if (iter == gate_kernels_.cend()) throw ...; (iter->second)(...);
PeerInvoke ==
    /\ peer.pc = "found"
    /\ peer' = [peer EXCEPT
                  !.pc = "done",
                  !.result =
                      IF peer.iter.end
                      THEN Threw("std::invalid_argument", GateKernelNotFound)
                      ELSE Returned(NoValue,
                               <<GateInvocation(gate_kernels_[peer.iter.key],
                                                PeerArgs)>>)]
    /\ UNCHANGED <<call, i, invoked, buffer, missed, tables, registry>>

\* control is back in the second thread's caller
PeerReturn ==
    /\ peer.pc = "done"
    /\ peer' = NoPeer
    /\ UNCHANGED <<call, i, invoked, buffer, missed, tables, registry>>

-----------------------------------------------------------------------------
(* A caller that registers a kernel after a dispatch was refused *)

\* the caller catches the exception of applyOperation and notes the pair
CallerNotesRefusal ==
    /\ call.api = "applyOperation"
    /\ call.outcome = "threw"
    /\ call.what = GateKernelNotFound
    /\ missed' = <<call.args.op, call.args.kernel>>
    /\ call' = NoCall
    /\ invoked' = <<>>
    /\ buffer' = <<>>
    /\ i' = 0
    /\ UNCHANGED <<peer, tables, registry>>

-----------------------------------------------------------------------------

Init ==
    /\ str_to_gates_ = BuildTable(gate_names, EmptyMap)
    /\ str_to_gntrs_ = BuildTable(generatorNamesWithoutPrefix, EmptyMap)
    /\ gate_kernels_ = EmptyMap
    /\ generator_kernels_ = EmptyMap
    /\ matrix_kernels_ = EmptyMap
    /\ kernel_names_ = EmptyMap
    /\ call = NoCall
    /\ i = 0
    /\ invoked = <<>>
    /\ buffer = <<>>
    /\ peer = NoPeer
    /\ missed = NoPair

Next ==
    \/ RegisterGateOperation
    \/ RegisterGeneratorOperation
    \/ RegisterMatrixOperation
    \/ ApplyOperation
    \/ ApplyOperationStr
    \/ ApplyGenerator
    \/ ApplyGeneratorStr
    \/ ApplyMatrix
    \/ ApplyMatrixVec
    \/ RegisteredGatesForKernel
    \/ RegisteredGeneratorsForKernel
    \/ RegisteredMatricesForKernel
    \/ IsRegistered
    \/ StrToGateOp
    \/ HasGateOp
    \/ StrToGeneratorOp
    \/ Return

Spec == Init /\ [][Next]_vars

\* the four maps of the registry, the queries on them and the dispatch of an
\* enumerator of each family
NextNames ==
    \/ RegisterKernelName
    \/ RegisterGateOperation
    \/ RegisterGeneratorOperation
    \/ RegisterMatrixOperation
    \/ RegisteredKernels
    \/ IsRegisteredKernel
    \/ GetKernelName
    \/ RegisteredGatesForKernel
    \/ RegisteredGeneratorsForKernel
    \/ RegisteredMatricesForKernel
    \/ IsRegistered
    \/ ApplyOperation
    \/ ApplyGenerator
    \/ ApplyMatrix
    \/ Return

SpecNames == Init /\ [][NextNames]_vars

\* what kernel modules may have registered before the threads start:
\* nothing, or two gates, and nothing more or a generator, two matrix
\* operations and a kernel name
BuiltGateKernels ==
    Emplace(Emplace(EmptyMap, <<"GateOperation::PauliX", "KernelType::PI">>,
                    "gateFuncA"),
            <<"GateOperation::RX", "KernelType::LM">>, "gateFuncB")

BuiltGeneratorKernels ==
    Emplace(EmptyMap, <<"GeneratorOperation::RX", "KernelType::PI">>, "gntrFuncA")

BuiltMatrixKernels ==
    Emplace(Emplace(EmptyMap,
                    <<"MatrixOperation::SingleQubitOp", "KernelType::PI">>,
                    "matFuncA"),
            <<"MatrixOperation::MultiQubitOp", "KernelType::PI">>, "matFuncB")

BuiltKernelNames == Emplace(EmptyMap, "KernelType::LM", "LM")

\* the instance once its registration phase is over
InitOperate ==
    /\ str_to_gates_ = BuildTable(gate_names, EmptyMap)
    /\ str_to_gntrs_ = BuildTable(generatorNamesWithoutPrefix, EmptyMap)
    /\ gate_kernels_ \in {EmptyMap, BuiltGateKernels}
    /\ \E built \in BOOLEAN :
          /\ generator_kernels_ = IF built THEN BuiltGeneratorKernels ELSE EmptyMap
          /\ matrix_kernels_ = IF built THEN BuiltMatrixKernels ELSE EmptyMap
          /\ kernel_names_ = IF built THEN BuiltKernelNames ELSE EmptyMap
    /\ call = NoCall
    /\ i = 0
    /\ invoked = <<>>
    /\ buffer = <<>>
    /\ peer = NoPeer
    /\ missed = NoPair

\* two threads that dispatch and query, no registration
NextOperate ==
    \/ ApplyOperation
    \/ ApplyOperationStr
    \/ ApplyGenerator
    \/ ApplyGeneratorStr
    \/ ApplyMatrix
    \/ ApplyMatrixVec
    \/ ApplyOperations
    \/ ApplyOperationsNoParams
    \/ ApplyOperationsStep
    \/ ApplyOperationsExit
    \/ RegisteredGatesForKernel
    \/ RegisteredGeneratorsForKernel
    \/ RegisteredMatricesForKernel
    \/ IsRegistered
    \/ RegisteredKernels
    \/ IsRegisteredKernel
    \/ GetKernelName
    \/ StrToGateOp
    \/ HasGateOp
    \/ StrToGeneratorOp
    \/ Return
    \/ PeerFind
    \/ PeerInvoke
    \/ PeerReturn

SpecOperate == InitOperate /\ [][NextOperate]_vars

\* the gate map, gate dispatch and a caller that notes a refusal
NextRetry ==
    \/ RegisterGateOperation
    \/ ApplyOperation
    \/ Return
    \/ CallerNotesRefusal

SpecRetry == Init /\ [][NextRetry]_vars

\* the gate map and the batch entry point
NextBatch ==
    \/ RegisterGateOperation
    \/ ApplyOperations
    \/ ApplyOperationsNoParams
    \/ ApplyOperationsStep
    \/ ApplyOperationsExit
    \/ Return

SpecBatch == Init /\ [][NextBatch]_vars

-----------------------------------------------------------------------------
(* The failure kinds, as a caller observes them *)

\* std::out_of_range from the name table's at()
UnknownOperation(c) == c.outcome = "threw" /\ c.type = "std::out_of_range"

KernelNotRegistered(c) ==
    /\ c.outcome = "threw"
    /\ c.type = "std::invalid_argument"
    /\ c.what \in {GateKernelNotFound, GeneratorKernelNotFound}
                    \cup {MatrixKernelNotFound(mat_op) : mat_op \in MatrixOperation}

ArgumentCountMismatchError(c) ==
    /\ c.outcome = "threw"
    /\ c.type = "std::invalid_argument"
    /\ c.what = ArgumentCountMismatch

MatrixSizeMismatchError(c) ==
    /\ c.outcome = "threw"
    /\ c.type = "std::invalid_argument"
    /\ c.what = MatrixSizeMismatch

\* names of the catalogue
GateNames == {gate_names[k][2] : k \in DOMAIN gate_names}

GeneratorNames == {generator_names[k][2] : k \in DOMAIN generator_names}

NoCallableRan == invoked = <<>> /\ buffer = <<>>

GateCalls == {"applyOperation", "applyOperation(str)"}

GeneratorCalls == {"applyGenerator", "applyGenerator(str)"}

MatrixCalls == {"applyMatrix", "applyMatrix(vector)"}

-----------------------------------------------------------------------------
(* C1 *)

\* what a call of registerXOperation(op, kernel, func) does to its map
RegistersFirstOnly(api, map, map_after) ==
    (call'.api = api /\ call.api = "none") =>
        LET key == <<call'.args.op, call'.args.kernel>>
        IN  /\ contains(map_after, key)
            /\ contains(map, key) => map_after = map
            /\ ~contains(map, key) => map_after[key] = call'.args.func

\* an entry of the map stays what it is
EntriesKept(map, map_after) ==
    \A key \in DOMAIN map : contains(map_after, key) /\ map_after[key] = map[key]

FirstRegistrationWinsStep ==
    /\ RegistersFirstOnly("registerGateOperation", gate_kernels_, gate_kernels_')
    /\ RegistersFirstOnly("registerGeneratorOperation", generator_kernels_,
                          generator_kernels_')
    /\ RegistersFirstOnly("registerMatrixOperation", matrix_kernels_,
                          matrix_kernels_')
    /\ EntriesKept(gate_kernels_, gate_kernels_')
    /\ EntriesKept(generator_kernels_, generator_kernels_')
    /\ EntriesKept(matrix_kernels_, matrix_kernels_')

\* the enumerator the catalogue gives a name
CatalogueOp(names, name) ==
    names[CHOOSE k \in DOMAIN names : names[k][2] = name][1]

\* the operation a gate or generator dispatch asked for, as an enumerator
RequestedOp(c) ==
    CASE c.api = "applyOperation(str)" -> CatalogueOp(gate_names, c.args.op)
      [] c.api = "applyGenerator(str)" ->
            CatalogueOp(generator_names, prefix \o c.args.op)
      [] OTHER -> c.args.op

\* a dispatch that returned ran the one callable stored for its pair
DispatchRunsStored ==
    /\ (call.api \in GateCalls /\ call.outcome = "returned") =>
          /\ Len(invoked) = 1
          /\ contains(gate_kernels_, <<RequestedOp(call), call.args.kernel>>)
          /\ invoked[1].func =
                gate_kernels_[<<RequestedOp(call), call.args.kernel>>]
    /\ (call.api \in GeneratorCalls /\ call.outcome = "returned") =>
          /\ Len(invoked) = 1
          /\ contains(generator_kernels_, <<RequestedOp(call), call.args.kernel>>)
          /\ invoked[1].func =
                generator_kernels_[<<RequestedOp(call), call.args.kernel>>]
    /\ (call.api \in MatrixCalls /\ call.outcome = "returned") =>
          \E mat_op \in MatrixOperation :
              /\ Len(invoked) = 1
              /\ contains(matrix_kernels_, <<mat_op, call.args.kernel>>)
              /\ invoked[1].func = matrix_kernels_[<<mat_op, call.args.kernel>>]

\* C1: first registration wins.  In each of the gate, generator and matrix
\* maps a registration of a vacant (operation, kernel) pair stores the callable
\* it was passed, a registration of an occupied pair changes nothing, no step
\* ever changes or removes a stored callable, and a dispatch that returns has
\* invoked the callable stored for its pair, which is therefore the one of the
\* earliest registration.
C1_FirstRegistrationWins ==
    [][FirstRegistrationWinsStep /\ DispatchRunsStored']_vars

\* a second registration, with another callable, has just left the entry alone
C1_Witness ==
    /\ call.api = "registerGateOperation"
    /\ contains(gate_kernels_, <<call.args.op, call.args.kernel>>)
    /\ gate_kernels_[<<call.args.op, call.args.kernel>>] # call.args.func

-----------------------------------------------------------------------------
(* C2 *)

\* the name passed to a string form is one the name table resolves
NameResolves(c) ==
    CASE c.api = "applyOperation(str)" -> c.args.op \in GateNames
      [] c.api = "applyGenerator(str)" -> (prefix \o c.args.op) \in GeneratorNames
      [] OTHER -> TRUE

\* the map a gate or generator dispatch looks its pair up in
MapOf(c) == IF c.api \in GateCalls THEN gate_kernels_ ELSE generator_kernels_

\* the dispatch in `call` asked for a pair its map does not hold
PairMissing ==
    /\ call.api \in GateCalls \cup GeneratorCalls
    /\ NameResolves(call)
    /\ ~contains(MapOf(call), <<RequestedOp(call), call.args.kernel>>)

\* C2: missing kernel.  applyOperation and applyGenerator, in the string and
\* in the enumerator form, called for an (operation, kernel) pair that their
\* map does not hold fail with KernelNotRegistered, invoke no callable (also
\* none registered for the operation under another kernel) and leave the
\* buffer as it was.
C2_MissingKernelFails ==
    PairMissing => KernelNotRegistered(call) /\ NoCallableRan

\* the pair is missing while the operation is registered under another kernel
C2_Witness ==
    /\ PairMissing
    /\ call.api = "applyOperation"
    /\ \E kernel \in KernelType : contains(gate_kernels_, <<call.args.op, kernel>>)
    /\ KernelNotRegistered(call)

-----------------------------------------------------------------------------
(* C3 *)

\* C3: the KernelNotRegistered error of applyOperation tells which operation
\* and which kernel were asked for: a failing call for another operation or
\* another kernel carries another error.
C3_ErrorNamesOperationAndKernel ==
    (call.api = "applyOperation" /\ KernelNotRegistered(call)) =>
        \A kernel \in KernelType, gate_op \in GateOperation :
            LET other == applyOperation(kernel, gate_op, call.args.a)
            IN  (/\ <<gate_op, kernel>> # <<call.args.op, call.args.kernel>>
                 /\ KernelNotRegistered(other))
                    => <<other.type, other.what>> # <<call.type, call.what>>

-----------------------------------------------------------------------------
(* C4 *)

\* the string form in `call` was passed a name its catalogue does not have
NameUnknown ==
    call.api \in {"applyOperation(str)", "applyGenerator(str)"}
        /\ ~NameResolves(call)

\* C4: unknown name.  applyOperation with a string that is no gate name of
\* the catalogue, and applyGenerator with a string that is no generator name
\* with its prefix stripped, fail with UnknownOperation whatever the kernel
\* and whatever the registry holds; no callable is invoked and the buffer is
\* not touched.
C4_UnknownNameFails ==
    NameUnknown => UnknownOperation(call) /\ NoCallableRan

\* an unknown gate name, asked for under a kernel that has gates registered
C4_Witness ==
    /\ NameUnknown
    /\ call.api = "applyOperation(str)"
    /\ call.args.op = "NotAGate"
    /\ \E gate_op \in GateOperation :
          contains(gate_kernels_, <<gate_op, call.args.kernel>>)
    /\ UnknownOperation(call)

-----------------------------------------------------------------------------
(* C5 *)

BatchCall == call.api = "applyOperations"

\* the lists of the batch in `call` break the length precondition of its overload
BatchLengthsDiffer ==
    LET a == call.args.a
    IN  \/ Len(a.ops) # Len(a.wires)
        \/ call.args.with_params /\ Len(a.ops) # Len(a.params)

\* element k of the batch cannot be applied: its name is unknown or its pair
\* is not registered
ElementFails(k) ==
    LET name == call.args.a.ops[k]
    IN  \/ name \notin GateNames
        \/ ~contains(gate_kernels_,
                     <<CatalogueOp(gate_names, name), call.args.kernel>>)

\* C5: fail-fast batch.  applyOperations with ops and wires of different
\* lengths, or, in the overload with parameters, ops and params of different
\* lengths, fails with ArgumentCountMismatch before any element is applied:
\* the loop is never entered, no callable is invoked and the buffer is
\* unchanged, also when every named operation is registered for the kernel.
C5_BatchFailsFast ==
    (BatchCall /\ BatchLengthsDiffer) =>
        ArgumentCountMismatchError(call) /\ NoCallableRan /\ i = 0

\* three lists of which only params is of another length, every operation
\* being registered
C5_Witness ==
    /\ BatchCall
    /\ call.args.with_params
    /\ Len(call.args.a.ops) = 2
    /\ Len(call.args.a.wires) = 2
    /\ Len(call.args.a.params) = 1
    /\ \A k \in 1..2 : ~ElementFails(k)
    /\ ArgumentCountMismatchError(call)

-----------------------------------------------------------------------------
(* C6 *)

\* invocation `ran` is the one of element k of the batch: the callable of
\* ops[k] with wires[k], inverse[k] and params[k]
ElementRan(k, ran) ==
    LET a == call.args.a
    IN  /\ ran.func = gate_kernels_[<<CatalogueOp(gate_names, a.ops[k]),
                                      call.args.kernel>>]
        /\ ran.data = a.data
        /\ ran.num_qubits = a.num_qubits
        /\ ran.wires = a.wires[k]
        /\ k <= Len(a.inverse) => ran.inverse = a.inverse[k]
        /\ ran.params = IF call.args.with_params THEN a.params[k] ELSE <<>>

\* the first n elements were applied, once each and in input order
FirstApplied(n) ==
    /\ Len(invoked) = n
    /\ \A k \in 1..n : ~ElementFails(k) /\ ElementRan(k, invoked[k])
    /\ buffer = Writes(invoked)

\* C6: batch order.  While applyOperations runs, the callables invoked so far
\* are those of elements 0..i-1, once each and in input order, each with its
\* own ops[k], wires[k], inverse[k] and params[k] and each done before the next
\* begins; when the call returns they are those of all the elements.
C6_BatchInOrder ==
    (BatchCall /\ call.outcome \in {"running", "returned"}) =>
        /\ i <= Len(call.args.a.ops)
        /\ FirstApplied(i)
        /\ call.outcome = "returned" => i = Len(call.args.a.ops)

\* a batch of two elements returned, having run two different callables
C6_Witness ==
    /\ BatchCall
    /\ call.outcome = "returned"
    /\ Len(invoked) = 2
    /\ invoked[1].func # invoked[2].func
    /\ Len(call.args.a.inverse) = 2

-----------------------------------------------------------------------------
(* C7 *)

SomeElementFails == \E k \in 1..Len(call.args.a.ops) : ElementFails(k)

\* index, from 0, of the first element that cannot be applied
FirstFailing ==
    (CHOOSE k \in 1..Len(call.args.a.ops) :
        ElementFails(k) /\ \A j \in 1..(k - 1) : ~ElementFails(j)) - 1

\* the error applyOperation raises for the element of index k
ElementErrorReported(k) ==
    IF call.args.a.ops[k + 1] \notin GateNames
    THEN UnknownOperation(call)
    ELSE KernelNotRegistered(call) /\ call.what = GateKernelNotFound

\* C7: batch abort without rollback.  In a batch with matching lengths whose
\* first element that fails (unknown name, or pair not registered) is element
\* k, no element after k is ever applied, and when the call has thrown or
\* returned it has thrown the error of element k, with the callables of
\* elements 0..k-1 invoked once each, their writes to the buffer left in
\* place and nothing written for element k.
C7_BatchAbortsAtFirstFailure ==
    (BatchCall /\ ~BatchLengthsDiffer /\ SomeElementFails) =>
        /\ i <= FirstFailing
        /\ call.outcome \in {"returned", "threw"} =>
              /\ call.outcome = "threw"
              /\ i = FirstFailing
              /\ ElementErrorReported(FirstFailing)
              /\ FirstApplied(FirstFailing)

\* the second element failed for want of a kernel after the first was applied
C7_Witness ==
    /\ BatchCall
    /\ call.outcome = "threw"
    /\ KernelNotRegistered(call)
    /\ i = 1
    /\ Len(invoked) = 1
    /\ buffer # <<>>

-----------------------------------------------------------------------------
(* C8 *)

MatrixCall == call.api \in MatrixCalls

\* the matrix operation of a wire count
OpOfWireCount(n) ==
    IF n = 1 THEN "MatrixOperation::SingleQubitOp"
    ELSE IF n = 2 THEN "MatrixOperation::TwoQubitOp"
    ELSE "MatrixOperation::MultiQubitOp"

WireCount == Len(call.args.a.wires)

\* the vector form in `call` was given a matrix of the wrong element count
WrongCount ==
    call.api = "applyMatrix(vector)" /\ call.args.a.matrix.size # 4 ^ WireCount

\* the pair the matrix call in `call` is to resolve
MatrixPair == <<OpOfWireCount(WireCount), call.args.kernel>>

\* the pointer the callable of the matrix call in `call` is to receive
MatrixPointer ==
    IF call.api = "applyMatrix(vector)" THEN call.args.a.matrix.data
    ELSE call.args.a.matrix

\* C8: matrix classification.  An applyMatrix call that passes its wire and
\* element count checks resolves the operation from the wire count alone, 1
\* wire to the single-qubit, 2 wires to the two-qubit and any other count to
\* the multi-qubit operation, whatever the matrix holds: it invokes the
\* callable registered for (that operation, kernel), and fails with
\* KernelNotRegistered, invoking nothing, when that pair is vacant, whatever
\* is registered under the other matrix operations.
C8_MatrixClassifiedByWireCount ==
    (MatrixCall /\ WireCount <= call.args.a.num_qubits /\ ~WrongCount) =>
        IF contains(matrix_kernels_, MatrixPair)
        THEN /\ call.outcome = "returned"
             /\ Len(invoked) = 1
             /\ invoked[1].func = matrix_kernels_[MatrixPair]
             /\ invoked[1].wires = call.args.a.wires
             /\ invoked[1].matrix = MatrixPointer
             /\ buffer = <<matrix_kernels_[MatrixPair]>>
        ELSE /\ KernelNotRegistered(call)
             /\ call.what = MatrixKernelNotFound(OpOfWireCount(WireCount))
             /\ NoCallableRan

\* three wires ran the multi-qubit callable although the kernel has another
\* callable under another matrix operation
C8_Witness ==
    /\ call.api = "applyMatrix"
    /\ WireCount = 3
    /\ call.outcome = "returned"
    /\ \E mat_op \in MatrixOperation :
          /\ contains(matrix_kernels_, <<mat_op, call.args.kernel>>)
          /\ matrix_kernels_[<<mat_op, call.args.kernel>>] # invoked[1].func

-----------------------------------------------------------------------------
(* C9 *)

\* outcome, error and invocations of the call in `call`
Observed == <<call.outcome, call.type, call.what, invoked, buffer>>

\* the same of a result
ObservedOf(result) ==
    <<result.outcome, result.type, result.what, result.invocations,
      Writes(result.invocations)>>

\* C9: matrix size validation.  The applyMatrix form that takes the matrix as
\* a vector fails with MatrixSizeMismatch whenever the element count is not
\* 4^(number of wires), whatever is registered and before any callable is
\* invoked; with the count equal to 4^(number of wires) its outcome and its
\* invocation are those of the pointer form called with the vector's data.
C9_MatrixSizeValidated ==
    call.api = "applyMatrix(vector)" =>
        IF WrongCount
        THEN MatrixSizeMismatchError(call) /\ NoCallableRan
        ELSE Observed =
                ObservedOf(applyMatrix(call.args.kernel,
                    [call.args.a EXCEPT !.matrix = call.args.a.matrix.data]))

\* the matrix of 3 elements for 1 wire is refused although a callable is
\* registered for the pair
C9_Witness ==
    /\ WrongCount
    /\ call.args.a.matrix.size = 3
    /\ WireCount = 1
    /\ contains(matrix_kernels_, MatrixPair)
    /\ MatrixSizeMismatchError(call)

-----------------------------------------------------------------------------
(* C10 *)

TooManyWires == MatrixCall /\ WireCount > call.args.a.num_qubits

\* C10 as stated: every applyMatrix call with more wires than qubits, in
\* either form and whatever the matrix size, ends in the fatal assertion
\* failure.
C10_TooManyWiresAlwaysFatal ==
    TooManyWires => call.outcome = "aborted" /\ NoCallableRan

\* C10, amended: an applyMatrix call with more wires than qubits never
\* invokes a callable and never fails with KernelNotRegistered; the pointer
\* form, and the vector form given 4^(number of wires) elements, end in the
\* fatal assertion failure, and the vector form given another element count
\* fails with MatrixSizeMismatch.
C10_TooManyWiresFatalAfterSizeCheck ==
    TooManyWires =>
        /\ NoCallableRan
        /\ ~KernelNotRegistered(call)
        /\ IF WrongCount THEN MatrixSizeMismatchError(call)
           ELSE call.outcome = "aborted"

\* the assertion failed although the pair has a callable registered
C10_Witness ==
    /\ TooManyWires
    /\ call.api = "applyMatrix(vector)"
    /\ ~WrongCount
    /\ contains(matrix_kernels_, MatrixPair)
    /\ call.outcome = "aborted"

-----------------------------------------------------------------------------
(* C11 *)

\* the entry the dispatch in `call` is to resolve
DispatchPair ==
    IF call.api \in MatrixCalls THEN MatrixPair
    ELSE <<RequestedOp(call), call.args.kernel>>

\* the callable stored for that entry
ResolvedCallable ==
    CASE call.api \in GateCalls -> gate_kernels_[DispatchPair]
      [] call.api \in GeneratorCalls -> generator_kernels_[DispatchPair]
      [] call.api \in MatrixCalls -> matrix_kernels_[DispatchPair]

\* some wire of the call in `call` is not a wire of its register
WireOutOfRange ==
    \E k \in DOMAIN call.args.a.wires :
        call.args.a.wires[k] >= call.args.a.num_qubits

\* C11: pass-through dispatch.  A single dispatch that returns has invoked
\* the callable resolved for its pair exactly once, with the caller's buffer,
\* qubit count, wire list, inverse or adjoint flag and parameters or matrix
\* as the caller gave them, wires outside the register included; the buffer
\* was touched by that one invocation only, and applyGenerator returns the
\* scalar the callable returned.
C11_PassThroughDispatch ==
    (call.api \in GateCalls \cup GeneratorCalls \cup MatrixCalls
        /\ call.outcome = "returned") =>
        /\ buffer = <<ResolvedCallable>>
        /\ Len(invoked) = 1
        /\ invoked[1].func = ResolvedCallable
        /\ invoked[1].data = call.args.a.data
        /\ invoked[1].num_qubits = call.args.a.num_qubits
        /\ invoked[1].wires = call.args.a.wires
        /\ call.api \in GateCalls =>
              /\ invoked[1].inverse = call.args.a.inverse
              /\ invoked[1].params = call.args.a.params
              /\ call.value = NoValue
        /\ call.api \in GeneratorCalls =>
              /\ invoked[1].adj = call.args.a.adj
              /\ call.value = GeneratorScale(ResolvedCallable)
        /\ call.api \in MatrixCalls =>
              /\ invoked[1].inverse = call.args.a.inverse
              /\ invoked[1].matrix = MatrixPointer

\* a gate was applied, inverted, to a wire its register of 2 qubits does not
\* have
C11_Witness ==
    /\ call.api = "applyOperation"
    /\ call.outcome = "returned"
    /\ WireOutOfRange
    /\ call.args.a.inverse
    /\ call.args.a.params = <<1>>
    /\ Len(invoked) = 1

-----------------------------------------------------------------------------
(* C12 *)

IntrospectionCalls ==
    {"registeredGatesForKernel", "registeredGeneratorsForKernel",
     "registeredMatricesForKernel"}

DispatchCalls == GateCalls \cup GeneratorCalls \cup MatrixCalls

QueryCalls ==
    IntrospectionCalls
        \cup {"isRegistered", "registeredKernels", "isRegisteredKernel",
              "getKernelName"}

\* the operations of a family that isRegistered reports for a kernel
RegisteredOps(family, kernel) == {op \in family : isRegistered(op, kernel)}

\* the three introspection results agree with isRegistered
IntrospectionAgrees ==
    \A kernel \in KernelType :
        /\ registeredGatesForKernel(kernel) = RegisteredOps(GateOperation, kernel)
        /\ registeredGeneratorsForKernel(kernel) =
              RegisteredOps(GeneratorOperation, kernel)
        /\ registeredMatricesForKernel(kernel) =
              RegisteredOps(MatrixOperation, kernel)

\* what an introspection call returned is the set isRegistered reports
IntrospectionReturns ==
    /\ call.api = "registeredGatesForKernel" =>
          call.value = RegisteredOps(GateOperation, call.args.kernel)
    /\ call.api = "registeredGeneratorsForKernel" =>
          call.value = RegisteredOps(GeneratorOperation, call.args.kernel)
    /\ call.api = "registeredMatricesForKernel" =>
          call.value = RegisteredOps(MatrixOperation, call.args.kernel)
    /\ call.api = "isRegistered" =>
          call.value = isRegistered(call.args.op, call.args.kernel)

\* C12: introspection agrees with the registry.  For every kernel K the sets
\* registeredGatesForKernel(K), registeredGeneratorsForKernel(K) and
\* registeredMatricesForKernel(K), as operators of the state and as returned
\* by a call, hold exactly the operations op with isRegistered(op, K), none
\* that is registered under another kernel only, and no dispatch or query
\* step changes any of them.
C12_IntrospectionAgrees ==
    [][/\ IntrospectionAgrees'
       /\ IntrospectionReturns'
       /\ call'.api \in DispatchCalls \cup QueryCalls =>
             \A kernel \in KernelType :
                 /\ registeredGatesForKernel(kernel)' =
                       registeredGatesForKernel(kernel)
                 /\ registeredGeneratorsForKernel(kernel)' =
                       registeredGeneratorsForKernel(kernel)
                 /\ registeredMatricesForKernel(kernel)' =
                       registeredMatricesForKernel(kernel)]_progress

\* the gates of one kernel were listed while RX is registered under the other
\* kernel only
C12_Witness ==
    /\ call.api = "registeredGatesForKernel"
    /\ call.value = {"GateOperation::PauliX"}
    /\ \E kernel \in KernelType \ {call.args.kernel} :
          isRegistered("GateOperation::RX", kernel)

-----------------------------------------------------------------------------
(* C13 *)

\* std::out_of_range from kernel_names_.at()
UnknownKernel(c) ==
    c.api = "getKernelName" /\ c.outcome = "threw" /\ c.type = "std::out_of_range"

\* the elements of a sequence
Range(seq) == {seq[k] : k \in DOMAIN seq}

\* some operation of one of the three callable maps is registered under kernel
HasOperations(kernel) ==
    \E op \in GateOperation \cup GeneratorOperation \cup MatrixOperation :
        isRegistered(op, kernel)

\* the kernels that have a name change with registerKernelName only, which
\* adds the kernel it is called with
NamedByRegisterKernelNameOnly ==
    IF call'.api = "registerKernelName" /\ call.api = "none"
    THEN DOMAIN kernel_names_' = DOMAIN kernel_names_ \cup {call'.args.kernel}
    ELSE DOMAIN kernel_names_' = DOMAIN kernel_names_

\* what the three kernel-name queries answer
NameQueriesAnswer ==
    /\ call.api = "registeredKernels" =>
          /\ Range(call.value) = DOMAIN kernel_names_
          /\ Len(call.value) = Cardinality(DOMAIN kernel_names_)
    /\ call.api = "isRegisteredKernel" =>
          call.value = (call.args.kernel \in DOMAIN kernel_names_)
    /\ call.api = "getKernelName" =>
          IF call.args.kernel \in DOMAIN kernel_names_
          THEN call.outcome = "returned"
          ELSE UnknownKernel(call)

\* C13: kernel naming is separate bookkeeping.  Only registerKernelName gives
\* a kernel a name, registering operations under a kernel does not;
\* registeredKernels() returns the named kernels, each once;
\* isRegisteredKernel is false and getKernelName fails with UnknownKernel for
\* a kernel that has no name, whatever operations are registered under it.
C13_KernelNamingSeparate ==
    [][NamedByRegisterKernelNameOnly /\ NameQueriesAnswer']_progress

\* the name of a kernel was asked for and not found although a gate is
\* registered under that kernel
C13_Witness ==
    /\ UnknownKernel(call)
    /\ HasOperations(call.args.kernel)
    /\ ~isRegisteredKernel(call.args.kernel)

-----------------------------------------------------------------------------
(* C14 *)

\* the pairs (enumerator, name) of a catalogue
Catalogued(names) == {names[k] : k \in DOMAIN names}

\* every catalogued gate name resolves to its gate and every catalogued
\* generator name, short of its prefix, to its generator
NamesRoundTrip ==
    /\ \A pair \in Catalogued(gate_names) :
          /\ hasGateOp(pair[2])
          /\ ~strToGateOpThrows(pair[2])
          /\ strToGateOp(pair[2]) = pair[1]
    /\ \A pair \in Catalogued(generator_names) :
          \E short \in OpNames :
              /\ prefix \o short = pair[2]
              /\ ~strToGeneratorOpThrows(short)
              /\ strToGeneratorOp(short) = pair[1]

\* no other string resolves
OtherNamesFail ==
    \A name \in OpNames :
        /\ name \notin GateNames =>
              strToGateOpThrows(name) /\ ~hasGateOp(name)
        /\ prefix \o name \notin GeneratorNames => strToGeneratorOpThrows(name)

\* what the three lookups answered the caller
LookupsAnswer ==
    /\ call.api = "strToGateOp" =>
          IF call.args.name \in GateNames
          THEN /\ call.outcome = "returned"
               /\ call.value = CatalogueOp(gate_names, call.args.name)
          ELSE UnknownOperation(call)
    /\ call.api = "hasGateOp" =>
          call.value = (call.args.name \in GateNames)
    /\ call.api = "strToGeneratorOp" =>
          IF prefix \o call.args.name \in GeneratorNames
          THEN /\ call.outcome = "returned"
               /\ call.value =
                     CatalogueOp(generator_names, prefix \o call.args.name)
          ELSE UnknownOperation(call)

\* the two tables hold the catalogue's names and nothing else
TablesAsConstructed ==
    /\ DOMAIN str_to_gates_ = GateNames
    /\ \A short \in DOMAIN str_to_gntrs_ : prefix \o short \in GeneratorNames
    /\ Cardinality(DOMAIN str_to_gntrs_) = Cardinality(GeneratorNames)

\* C14: round-trip naming.  In every reachable state, so after any
\* registration, dispatch or lookup, each catalogued gate name N of gate G
\* has hasGateOp(N) and strToGateOp(N) = G, each catalogued generator name
\* "Generator" + X of generator Q has strToGeneratorOp(X) = Q, every other
\* string fails with UnknownOperation (hasGateOp: false), and the two tables
\* hold what the constructor put there.
C14_NamesRoundTrip ==
    /\ NamesRoundTrip
    /\ OtherNamesFail
    /\ LookupsAnswer
    /\ TablesAsConstructed

\* the generator table resolved the short name CRX, after a registration
C14_Witness ==
    /\ call.api = "strToGeneratorOp"
    /\ call.args.name = "CRX"
    /\ call.value = "GeneratorOperation::CRX"
    /\ strToGeneratorOpThrows("GeneratorRX")
    /\ NumEntries > 0

-----------------------------------------------------------------------------
(* C15 *)

\* the call of the second thread, once done, ended as applyOperation ends
\* when it runs alone on the registry
PeerResolvesAsAlone ==
    peer.pc = "done" =>
        ObservedOf(peer.result) =
            ObservedOf(applyOperation(peer.kernel, peer.op, PeerArgs))

\* the single dispatch of the first thread ended as it ends when it runs
\* alone on the registry
CallResolvesAsAlone ==
    /\ call.api = "applyOperation" =>
          Observed = ObservedOf(applyOperation(call.args.kernel, call.args.op,
                                               call.args.a))
    /\ call.api = "applyOperation(str)" =>
          Observed = ObservedOf(applyOperationStr(call.args.kernel, call.args.op,
                                                  call.args.a))
    /\ call.api = "applyGenerator" =>
          Observed = ObservedOf(applyGenerator(call.args.kernel, call.args.op,
                                               call.args.a))
    /\ call.api = "applyGenerator(str)" =>
          Observed = ObservedOf(applyGeneratorStr(call.args.kernel, call.args.op,
                                                  call.args.a))
    /\ call.api = "applyMatrix" =>
          Observed = ObservedOf(applyMatrix(call.args.kernel, call.args.a))
    /\ call.api = "applyMatrix(vector)" =>
          Observed = ObservedOf(applyMatrixVec(call.args.kernel, call.args.a))

\* the batch of the first thread resolved each element it applied as the
\* registry resolves it now, after the steps of the second thread
BatchResolvesAsAlone ==
    (BatchCall /\ call.outcome \in {"running", "returned"}) => FirstApplied(i)

\* C15: operate-phase thread safety.  With two threads that dispatch, query
\* and look up, and no registration, no step of either thread changes the
\* three callable maps, the kernel-name map or the two name tables, and every
\* call, whatever steps of the other thread fall before, inside or after it,
\* resolves its pair to the callable or the error it resolves to when it runs
\* alone.
C15_OperatePhaseThreadSafe ==
    [][/\ UNCHANGED <<registry, tables>>
       /\ PeerResolvesAsAlone'
       /\ CallResolvesAsAlone'
       /\ BatchResolvesAsAlone']_progress

\* the second thread ran a callable while the first thread was inside a batch
\* that had applied one element and had one to go
C15_Witness ==
    /\ peer.pc = "done"
    /\ peer.result.outcome = "returned"
    /\ BatchCall
    /\ call.outcome = "running"
    /\ i = 1
    /\ Len(call.args.a.ops) = 2
    /\ Len(invoked) = 1

-----------------------------------------------------------------------------
(* C16 *)

\* the kind of the failure in `call`
CallKind ==
    CASE UnknownKernel(call) -> "UnknownKernel"
      [] ArgumentCountMismatchError(call) -> "ArgumentCountMismatch"
      [] MatrixSizeMismatchError(call) -> "MatrixSizeMismatch"
      [] KernelNotRegistered(call) -> "KernelNotRegistered"
      [] OTHER -> "UnknownOperation"

\* the exception types of the results that threw
ThrownTypes(results) ==
    {result.type : result \in {r \in results : r.outcome = "threw"}}

\* kind and exception type of the failures the entry points raise in this
\* state: an unknown name, a vacant pair, lists of different lengths, a matrix
\* of the wrong element count, a kernel without a name
RaisedNow ==
    LET a == CHOOSE args \in GateArgs : TRUE
        m == CHOOSE args \in MatrixVecArgs :
                 args.matrix.size # 4 ^ Len(args.wires)
        Kind(kind, results) ==
            {[kind |-> kind, type |-> type] : type \in ThrownTypes(results)}
    IN  Kind("UnknownOperation",
             {applyOperationStr(kernel, "NotAGate", a) : kernel \in KernelType})
        \cup Kind("KernelNotRegistered",
                  {applyOperation(kernel, gate_op, a) :
                      kernel \in KernelType, gate_op \in GateOperation})
        \cup Kind("ArgumentCountMismatch", {ArgumentCountError})
        \cup Kind("MatrixSizeMismatch",
                  {applyMatrixVec(kernel, m) : kernel \in KernelType})
        \cup Kind("UnknownKernel",
                  {getKernelName(kernel) : kernel \in KernelType})

\* C16: errors are told apart by category.  The exception type of a call that
\* failed differs from the exception type of every failure of another kind
\* among UnknownOperation, KernelNotRegistered, ArgumentCountMismatch,
\* MatrixSizeMismatch and UnknownKernel.
C16_ErrorsToldApartByCategory ==
    call.outcome = "threw" =>
        \A failure \in RaisedNow :
            failure.kind # CallKind => failure.type # call.type

-----------------------------------------------------------------------------
(* C17 *)

\* what isRegistered and isRegisteredKernel report stays reported
StaysRegistered ==
    /\ \A kernel \in KernelType :
          /\ isRegisteredKernel(kernel) => isRegisteredKernel(kernel)'
          /\ \A op \in GateOperation \cup GeneratorOperation \cup MatrixOperation :
                isRegistered(op, kernel) => isRegistered(op, kernel)'

\* a name that getKernelName returned is the one the map holds
NameReturnedIsStored ==
    (call.api = "getKernelName" /\ call.outcome = "returned") =>
        call.value = kernel_names_[call.args.kernel]

\* C17: the registry only grows.  No registration, dispatch, query or return
\* step removes an entry of the gate, generator, matrix or kernel-name map or
\* changes the callable or name it holds: what isRegistered and
\* isRegisteredKernel report true stays true, and dispatch and getKernelName
\* resolve to the stored callable and name.
C17_RegistryOnlyGrows ==
    [][/\ EntriesKept(gate_kernels_, gate_kernels_')
       /\ EntriesKept(generator_kernels_, generator_kernels_')
       /\ EntriesKept(matrix_kernels_, matrix_kernels_')
       /\ EntriesKept(kernel_names_, kernel_names_')
       /\ StaysRegistered
       /\ DispatchRunsStored'
       /\ NameReturnedIsStored']_progress

\* a gate was dispatched under a kernel that was given a name as well
C17_Witness ==
    /\ call.api = "applyOperation"
    /\ call.outcome = "returned"
    /\ isRegisteredKernel(call.args.kernel)
    /\ NumEntries >= 2

-----------------------------------------------------------------------------
(* C18 *)

\* the pair of the gate call in `call`
GatePair(c) == <<c.args.op, c.args.kernel>>

\* a registration is accepted whenever it is made, after a refused dispatch
\* too: the pair is registered afterwards, with the callable passed if it was
\* vacant, and the registration itself invokes nothing
RegistrationAlwaysAccepted ==
    (call.api = "none" /\ call'.api = "registerGateOperation") =>
        /\ contains(gate_kernels_', GatePair(call'))
        /\ ~contains(gate_kernels_, GatePair(call')) =>
              gate_kernels_'[GatePair(call')] = call'.args.func
        /\ invoked' = <<>>
        /\ buffer' = <<>>

\* applyOperation for the pair that was refused, made once the pair is
\* registered, returns and has invoked the registered callable
RetrySucceeds ==
    (/\ call.api = "none"
     /\ call'.api = "applyOperation"
     /\ GatePair(call') = missed
     /\ contains(gate_kernels_, missed)) =>
        /\ call'.outcome = "returned"
        /\ Len(invoked') = 1
        /\ invoked'[1].func = gate_kernels_[missed]

\* a call that failed is over: the only step left to it is the caller's, and
\* it invokes nothing
FailedCallIsOver ==
    call.outcome = "threw" =>
        /\ call'.api = "none"
        /\ invoked' = <<>>
        /\ UNCHANGED registry

\* C18: no enforced phase barrier, caller-driven retry.  registerGateOperation
\* is accepted at any time, also after dispatch calls were made and refused;
\* once a callable is registered for a pair whose applyOperation failed with
\* KernelNotRegistered, the caller's next applyOperation for the pair returns
\* and has invoked that callable; a failed call is never retried by the class.
C18_CallerDrivenRetry ==
    [][RegistrationAlwaysAccepted /\ RetrySucceeds /\ FailedCallIsOver]_progress

\* the pair the caller saw refused, and registered since, was dispatched
C18_Witness ==
    /\ call.api = "applyOperation"
    /\ call.outcome = "returned"
    /\ GatePair(call) = missed
    /\ Len(invoked) = 1

-----------------------------------------------------------------------------
(* C19 *)

\* the indexes the loop of the batch in `call` has read its lists at: those
\* below i, and i itself when the element of index i ended the call
IndexesRead ==
    IF call.outcome \in {"threw", "fault"} THEN 0..i ELSE 0..(i - 1)

\* C19: in-bounds batch access.  In a batch that passed its length check
\* every index at which the loop has read ops, wires, inverse and, in the
\* overload that has them, params is below the length of each of these
\* lists.
C19_BatchReadsInBounds ==
    (BatchCall /\ ~BatchLengthsDiffer) =>
        \A index \in IndexesRead :
            /\ index < Len(call.args.a.ops)
            /\ index < Len(call.args.a.wires)
            /\ index < Len(call.args.a.inverse)
            /\ call.args.with_params => index < Len(call.args.a.params)

-----------------------------------------------------------------------------
(* C20 *)

\* registerKernelName(kernel, name) names a kernel that has no name and
\* leaves the map alone for a kernel that has one
NamesFirstOnly ==
    (call.api = "none" /\ call'.api = "registerKernelName") =>
        LET kernel == call'.args.kernel
        IN  /\ contains(kernel_names_', kernel)
            /\ contains(kernel_names_, kernel) => kernel_names_' = kernel_names_
            /\ ~contains(kernel_names_, kernel) =>
                  kernel_names_'[kernel] = call'.args.name

\* how often a kernel occurs in a vector of kernels
Occurrences(kernels, kernel) ==
    Cardinality({k \in DOMAIN kernels : kernels[k] = kernel})

\* getKernelName returns the name held, and registeredKernels holds each named
\* kernel once
NamedOnce ==
    /\ (call.api = "getKernelName" /\ contains(kernel_names_, call.args.kernel)) =>
          /\ call.outcome = "returned"
          /\ call.value = kernel_names_[call.args.kernel]
    /\ call.api = "registeredKernels" =>
          \A kernel \in DOMAIN kernel_names_ :
              Occurrences(call.value, kernel) = 1

\* C20: kernel names are first-wins.  The first registerKernelName(K, n1)
\* stores n1, every later registerKernelName(K, n2) leaves the map as it is,
\* and no step changes a stored name, so that getKernelName(K) returns n1
\* and registeredKernels() holds K exactly once.
C20_KernelNamesFirstWins ==
    [][/\ NamesFirstOnly
       /\ EntriesKept(kernel_names_, kernel_names_')
       /\ NamedOnce']_progress

\* a kernel that has a name was just given another one, and kept the first
C20_Witness ==
    /\ call.api = "registerKernelName"
    /\ contains(kernel_names_, call.args.kernel)
    /\ kernel_names_[call.args.kernel] # call.args.name

-----------------------------------------------------------------------------
(* C21 *)

\* two maps hold the same entries
SameMap(map, map_after) ==
    /\ DOMAIN map_after = DOMAIN map
    /\ \A key \in DOMAIN map : map_after[key] = map[key]

\* the two maps hold the same entries but, maybe, the one of key
SameButAt(map, map_after, key) ==
    /\ DOMAIN map_after \ {key} = DOMAIN map \ {key}
    /\ \A other \in DOMAIN map \ {key} : map_after[other] = map[other]

\* the call that has just been made is the registration `api`
JustCalled(api) == call.api = "none" /\ call'.api = api

\* the two name tables are left as they are
TablesSame ==
    /\ SameMap(str_to_gates_, str_to_gates_')
    /\ SameMap(str_to_gntrs_, str_to_gntrs_')

\* each registration touches the entry of its key in its own map, no more
RegistrationFrame ==
    /\ JustCalled("registerGateOperation") =>
          /\ SameButAt(gate_kernels_, gate_kernels_',
                       <<call'.args.op, call'.args.kernel>>)
          /\ SameMap(generator_kernels_, generator_kernels_')
          /\ SameMap(matrix_kernels_, matrix_kernels_')
          /\ SameMap(kernel_names_, kernel_names_')
    /\ JustCalled("registerGeneratorOperation") =>
          /\ SameButAt(generator_kernels_, generator_kernels_',
                       <<call'.args.op, call'.args.kernel>>)
          /\ SameMap(gate_kernels_, gate_kernels_')
          /\ SameMap(matrix_kernels_, matrix_kernels_')
          /\ SameMap(kernel_names_, kernel_names_')
    /\ JustCalled("registerMatrixOperation") =>
          /\ SameButAt(matrix_kernels_, matrix_kernels_',
                       <<call'.args.op, call'.args.kernel>>)
          /\ SameMap(gate_kernels_, gate_kernels_')
          /\ SameMap(generator_kernels_, generator_kernels_')
          /\ SameMap(kernel_names_, kernel_names_')
    /\ JustCalled("registerKernelName") =>
          /\ SameButAt(kernel_names_, kernel_names_', call'.args.kernel)
          /\ SameMap(gate_kernels_, gate_kernels_')
          /\ SameMap(generator_kernels_, generator_kernels_')
          /\ SameMap(matrix_kernels_, matrix_kernels_')

\* C21: registrations do not shadow each other across keys or tables.  A
\* registration changes at most the entry (op, kernel) of its own map: every
\* other entry of that map, the other two callable maps, the kernel-name map
\* and the two name tables are as before, and registerKernelName changes at
\* most the name of its kernel and no callable map.
C21_RegistrationsDoNotShadow ==
    [][RegistrationFrame /\ TablesSame]_progress

\* a matrix callable was registered for an operation under one kernel while
\* the other kernel holds another callable for the same operation
C21_Witness ==
    /\ call.api = "registerMatrixOperation"
    /\ matrix_kernels_[<<call.args.op, call.args.kernel>>] = call.args.func
    /\ \E kernel \in KernelType \ {call.args.kernel} :
          /\ contains(matrix_kernels_, <<call.args.op, kernel>>)
          /\ matrix_kernels_[<<call.args.op, kernel>>] # call.args.func

====
